---- MODULE Spec2Model ----
(***************************************************************************)
(* A model of the def_mod! procedural macro (src/src/lib.rs).              *)
(*                                                                         *)
(* The macro parses a list of module declarations and, for each of them,   *)
(* emits the routed `mod` statements followed (when the module was         *)
(* declared with a brace-delimited body) by a `_load_<module>` function    *)
(* that holds one compile-time check per declared method.                  *)
(*                                                                         *)
(* Token streams are sequences of token trees; identifiers, punctuation,   *)
(* literals and delimited groups are records tagged by `tt`.  An           *)
(* Option<T> is the sequence of its zero or one values, which is also how  *)
(* quote! interpolates it.                                                 *)
(***************************************************************************)
EXTENDS Integers, Sequences, FiniteSets, TLC

\* ------------------------------------------------------------------ bounds

\* Largest number of non-receiver parameters of a method fed to convert.
MaxParams == 2
\* Largest number of syntax nodes (modules, attributes, types, methods) of one
\* macro invocation.
MaxNodes == 5

\* Fields that def_mod and convert copy through untouched (vis, mod_token,
\* unsafety, abi, fn_token, paren_token, variadic) are left out of the records.

\* ------------------------------------------------------------ token trees

None == << >>
Some(v) == << v >>

Id(s) == [tt |-> "Ident", s |-> s]
P(s) == [tt |-> "Punct", s |-> s]
Lit(s) == [tt |-> "Literal", s |-> s]
G(d, ts) == [tt |-> "Group", delimiter |-> d, stream |-> ts]

\* The tokens an Option<&Ident> interpolates to.
IdentTokens(opt) == IF opt = None THEN << >> ELSE << Id(opt[1]) >>

\* The closure built in tokenise_method: `Self` becomes the type's name.
func(self_replacement, ident) ==
    IF ident = "Self" THEN self_replacement ELSE ident

\* A rewrite that does not descend into delimited groups.
replace_idents_shallow(ts, self_replacement) ==
    [i \in 1..Len(ts) |->
        IF ts[i].tt = "Ident"
            THEN Id(func(self_replacement, ts[i].s))
            ELSE ts[i]]

RECURSIVE replace_idents(_, _)
replace_idents(ts, self_replacement) ==
    [i \in 1..Len(ts) |->
        IF ts[i].tt = "Group"
            THEN G(ts[i].delimiter, replace_idents(ts[i].stream, self_replacement))
        ELSE IF ts[i].tt = "Ident"
            THEN Id(func(self_replacement, ts[i].s))
        ELSE ts[i]]

\* `if let Some(ref func) = ident_mapping { replace_idents(ts, func) } else { ts }`
map_idents(ts, ident_mapping) ==
    IF ident_mapping = None THEN ts ELSE replace_idents(ts, ident_mapping[1])

\* --------------------------------------------------- parse2::<BareFnArg>

\* Keywords that can start neither an argument name nor a type.
NonTypeKeywords == {"mut", "self", "ref", "let", "const", "where"}

\* After `&`: an optional lifetime, then an optional `mut`.
StripLifetime(ts) ==
    IF Len(ts) >= 2 /\ ts[1] = P("'") /\ ts[2].tt = "Ident"
        THEN SubSeq(ts, 3, Len(ts)) ELSE ts

StripMut(ts) ==
    IF Len(ts) >= 1 /\ ts[1] = Id("mut") THEN Tail(ts) ELSE ts

\* Whether syn accepts the stream as a Type: it is not empty, it is a
\* reference to a type, or it starts as a path, a bare fn, a tuple, a slice
\* or an array does.
RECURSIVE IsType(_)
IsType(ts) ==
    IF ts = << >> THEN FALSE
    ELSE IF Head(ts) = P("&") THEN IsType(StripMut(StripLifetime(Tail(ts))))
    ELSE IF Head(ts).tt = "Ident" THEN Head(ts).s \notin NonTypeKeywords
    ELSE IF Head(ts).tt = "Group"
        THEN Head(ts).delimiter \in {"Parenthesis", "Bracket"}
    ELSE FALSE

\* parse2::<BareFnArg>(t): an optional `name :` (not `name ::`), then a Type
\* that takes every remaining token.
parse2_BareFnArg(t) ==
    LET named == /\ Len(t) >= 2
                 /\ t[1].tt = "Ident"
                 /\ t[1].s \notin NonTypeKeywords
                 /\ t[2] = P(":")
                 /\ (Len(t) >= 3 => t[3] /= P(":"))
        ty == IF named THEN SubSeq(t, 3, Len(t)) ELSE t
    IN  IF IsType(ty)
            THEN [ok |-> TRUE,
                  name |-> IF named THEN Some(t[1].s) ELSE None,
                  ty |-> ty]
            ELSE [ok |-> FALSE]

MutTokens(mutability) == IF mutability THEN << Id("mut") >> ELSE << >>

\* One iteration of the `for arg in inputs` loop of convert.
bare_fn_arg(arg, type_name, ident_mapping) ==
    CASE arg.arg = "SelfRef" ->
            parse2_BareFnArg(<< Id("_self"), P(":"), P("&") >> \o arg.lifetime
                             \o MutTokens(arg.mutability) \o IdentTokens(type_name))
      [] arg.arg = "SelfValue" ->
            parse2_BareFnArg(<< Id("_self"), P(":") >>
                             \o MutTokens(arg.mutability) \o IdentTokens(type_name))
      [] arg.arg = "Captured" ->
            parse2_BareFnArg(arg.pat \o << P(":") >> \o map_idents(arg.ty, ident_mapping))
      [] arg.arg = "Inferred" ->
            parse2_BareFnArg(arg.pat \o << P(":"), Id("_") >>)
      [] arg.arg = "Ignored" ->
            parse2_BareFnArg(map_idents(arg.ty, ident_mapping))

\* format!("_ASSERT_METHOD_{}", index)
load_ident(index) == "_ASSERT_METHOD_" \o ToString(index)

\* A name that leaves the type out.
nested_function_name_untyped(module_name, type_name, ident) ==
    "_load_" \o module_name \o "_" \o ident

\* format!("_load_{}_{}_{}", module_name, type_name, ident) or
\* format!("_load_{}_{}", module_name, ident)
nested_function_name(module_name, type_name, ident) ==
    IF type_name /= None
        THEN "_load_" \o module_name \o "_" \o type_name[1] \o "_" \o ident
        ELSE "_load_" \o module_name \o "_" \o ident

\* generics.split_for_impl().0: the parameters with their bounds, printed
\* without the default of a type parameter.
impl_generics(generics) ==
    [i \in 1..Len(generics.params) |->
        [param |-> generics.params[i].param, default |-> None]]

\* convert: the check generated for one method, or a panic when one of the
\* parse2(..).expect(..) calls fails.
convert(module_name, type_name, index, method_item, ident_mapping) ==
    LET args == [i \in 1..Len(method_item.inputs) |->
                    bare_fn_arg(method_item.inputs[i], type_name, ident_mapping)]
        output == map_idents(method_item.output, ident_mapping)
        type_bare_fn == [inputs |-> [i \in 1..Len(args) |->
                                        [name |-> args[i].name, ty |-> args[i].ty]],
                         output |-> output]
        context == IF type_name /= None THEN type_name[1] ELSE module_name
    IN  IF \E i \in 1..Len(args) : ~args[i].ok
            THEN [kind |-> "panic"]
        ELSE IF method_item.generics.params = << >>
            THEN [kind |-> "const",
                  attrs |-> method_item.attrs,
                  load_ident |-> load_ident(index),
                  type_bare_fn |-> type_bare_fn,
                  context |-> context,
                  ident |-> method_item.ident]
        ELSE [kind |-> "fn",
              attrs |-> method_item.attrs,
              nested_function_name |->
                  nested_function_name(module_name, type_name, method_item.ident),
              impl_generics |-> impl_generics(method_item.generics),
              where_clause |-> method_item.generics.where_clause,
              load_ident |-> load_ident(index),
              type_bare_fn |-> type_bare_fn,
              context |-> context,
              ident |-> method_item.ident]

\* An empty TokenStream.
EmptyTokens == [kind |-> "empty"]

\* A tokenise_method that does not advance the index.
tokenise_method_stale(module_name, idx, type_name, method_item) ==
    IF method_item.default
        THEN [tokens |-> EmptyTokens, index |-> idx]
        ELSE [tokens |-> convert(module_name, type_name, idx, method_item, type_name),
              index |-> idx]

\* A tokenise_method that does not look for a default body.
tokenise_method_any_body(module_name, idx, type_name, method_item) ==
    [tokens |-> convert(module_name, type_name, idx, method_item, type_name),
     index |-> idx + 1]

\* The closure tokenise_method: the tokens of one method's check and the
\* index afterwards.  A method with a body gets a diagnostic and no tokens,
\* and leaves the index alone.
tokenise_method(module_name, idx, type_name, method_item) ==
    IF method_item.default
        THEN [tokens |-> EmptyTokens, index |-> idx]
        ELSE [tokens |-> convert(module_name, type_name, idx, method_item, type_name),
              index |-> idx + 1]

\* A filter that keeps every stream.
Anything(t) == TRUE

\* `.filter(|t| !t.is_empty())` and `#(#method_items)*`: an empty stream
\* contributes nothing.
NonEmpty(t) == t /= EmptyTokens

\* The scoped block quoted for a type item.
type_block(attrs, module_name, type_name, method_items) ==
    [kind |-> "block",
     attrs |-> attrs,
     use |-> << "self", module_name, type_name >>,
     method_items |-> SelectSeq(method_items, NonEmpty)]

\* A router that copies every attribute onto every statement.
mod_statements_ungrouped(attrs, module_name) ==
    LET IsPathed(a) == a.path /= None
        pathed_attrs == SelectSeq(attrs, IsPathed)
        all_attrs == [i \in 1..Len(attrs) |-> attrs[i].attr]
    IN  IF pathed_attrs = << >>
            THEN << [kind |-> "mod", attr |-> None, path |-> None,
                     custom_attrs |-> all_attrs, ident |-> module_name] >>
            ELSE [i \in 1..Len(pathed_attrs) |->
                    [kind |-> "mod",
                     attr |-> Some(pathed_attrs[i].attr),
                     path |-> Some(pathed_attrs[i].path[1]),
                     custom_attrs |-> all_attrs,
                     ident |-> module_name]]

\* The `mod` statements quoted for one module.
mod_statements(attrs, module_name) ==
    LET IsPathed(a) == a.path /= None
        IsCustom(a) == a.path = None
        pathed_attrs == SelectSeq(attrs, IsPathed)
        custom == SelectSeq(attrs, IsCustom)
        custom_attrs == [i \in 1..Len(custom) |-> custom[i].attr]
    IN  IF pathed_attrs = << >>
            THEN << [kind |-> "mod",
                     attr |-> None,
                     path |-> None,
                     custom_attrs |-> custom_attrs,
                     ident |-> module_name] >>
            ELSE [i \in 1..Len(pathed_attrs) |->
                    [kind |-> "mod",
                     attr |-> Some(pathed_attrs[i].attr),
                     path |-> Some(pathed_attrs[i].path[1]),
                     custom_attrs |-> custom_attrs,
                     ident |-> module_name]]

\* The `_load_<module>` function quoted for a module with a body.
load_function(module_name, its) ==
    [kind |-> "load_fn",
     function_name |-> "_load_" \o module_name,
     use |-> << "self", module_name, "*" >>,
     items |-> its]

\* ------------------------------------------------------------------ inputs

BoundedSeq(S, n) == UNION { [1..k -> S] : k \in 0..n }

ModuleNames == {"m"}
TypeNames == {"A", "A_B"}
MethodNames == {"c", "B_c"}

\* Attributes as written: `#[attr]` or `#[attr] = "path"`.
Suffixes == {"nix"}
ModuleAttrs ==
    { [attr |-> "allow(unused)", path |-> None],
      [attr |-> "cfg(windows)", path |-> Some("sys/win.rs")] }
    \cup { [attr |-> "cfg(unix)", path |-> Some("~" \o x)] : x \in Suffixes }

\* Declared types, as their tokens.
TyU8 == << Id("u8") >>
TySelf == << Id("Self") >>
\* fn(SelfT, &Self) -> &Self
TyFn == << Id("fn"),
           G("Parenthesis", << Id("SelfT"), P(","), P("&"), Id("Self") >>),
           P("-"), P(">"), P("&"), Id("Self") >>
\* Vec<(Self, [Self; 2])>
TyNested == << Id("Vec"), P("<"),
               G("Parenthesis",
                 << Id("Self"), P(","),
                    G("Bracket", << Id("Self"), P(";"), Lit("2") >>) >>),
               P(">") >>
Types == {TyU8, TySelf, TyFn, TyNested}

SelfRef(lifetime, mutability) ==
    [arg |-> "SelfRef", lifetime |-> lifetime, mutability |-> mutability]
SelfValue(mutability) == [arg |-> "SelfValue", mutability |-> mutability]
Captured(pat, ty) == [arg |-> "Captured", pat |-> pat, ty |-> ty]
Ignored(ty) == [arg |-> "Ignored", ty |-> ty]

Receivers ==
    { SelfRef(None, FALSE), SelfRef(<< P("'"), Id("a") >>, FALSE),
      SelfRef(None, TRUE), SelfValue(FALSE), SelfValue(TRUE) }
\* Parameters `x: ty` and `ty`, and one whose pattern is no identifier:
\* `mut x: u8`.
Params ==
    { Captured(<< Id("x") >>, ty) : ty \in Types }
    \cup { Ignored(ty) : ty \in Types }
    \cup { Captured(<< Id("mut"), Id("x") >>, TyU8) }
IsReceiver(arg) == arg.arg \in {"SelfRef", "SelfValue"}

\* Parameter lists: an optional receiver, then up to n parameters.
Inputs(n) ==
    { r \o ps : r \in {<< >>} \cup { << x >> : x \in Receivers },
                ps \in BoundedSeq(Params, n) }

ReturnTypes == { << >>, << P("-"), P(">") >> \o TyFn }

NoGenerics == [params |-> << >>, where_clause |-> None]
GenericsSet ==
    { NoGenerics,
      [params |-> << [param |-> "'a", default |-> None],
                     [param |-> "T: Copy", default |-> Some("u8")] >>,
       where_clause |-> Some("T: Clone")] }

\* The methods convert is checked on.
ConvMethods ==
    [attrs : {<< >>, << "cfg(unix)" >>}, ident : {"c"}, generics : GenericsSet,
     inputs : Inputs(MaxParams), output : ReturnTypes, default : BOOLEAN]

\* The methods the module pipeline is checked on.
GenMethods ==
    [attrs : {<< >>}, ident : {"c"}, generics : {NoGenerics},
     inputs : { << >>, << SelfRef(None, FALSE) >>, << SelfValue(TRUE) >> },
     output : {<< >>},
     default : {FALSE}]
    \cup
    [attrs : {<< >>}, ident : MethodNames,
     generics : { [params |-> << [param |-> "T", default |-> None] >>,
                   where_clause |-> None] },
     inputs : {<< >>}, output : {<< >>}, default : {FALSE}]
    \cup
    [attrs : {<< >>}, ident : {"c"}, generics : {NoGenerics},
     inputs : {<< >>}, output : {<< >>}, default : {TRUE}]

\* ------------------------------------------------------------------- state

VARIABLES
    pc,            \* where def_mod is: "modules", "items", "type", "done", "panic"
    output,        \* the TokenStream `output`, as the sequence of quoted items
    module,        \* Option: the ModuleDecl of the current `for module` iteration
    body,          \* the DeclItems of its body iterated so far
    index,         \* `index` of the current module
    items,         \* the checks collected for the current module
    method_items,  \* the checks collected for the current type item
    mark,          \* Len(output) when the current iteration began
    nodes          \* syntax nodes of the invocation read so far

vars == << pc, output, module, body, index, items, method_items, mark, nodes >>

Init ==
    /\ pc = "modules"
    /\ output = << >>
    /\ module = None
    /\ body = << >>
    /\ index = 0
    /\ items = << >>
    /\ method_items = << >>
    /\ mark = 0
    /\ nodes = 0

\* The last element of a non-empty sequence replaced.
SetLast(seq, v) == [seq EXCEPT ![Len(seq)] = v]

\* One iteration of `for module in declarations`, up to the test of its body.
\* A module terminated by `;` is finished here; for one with braces the
\* iteration goes on over the items.
Module(attrs, ident, content) ==
    /\ pc = "modules"
    /\ nodes + 1 + Len(attrs) <= MaxNodes
    /\ nodes' = nodes + 1 + Len(attrs)
    /\ module' = Some([attrs |-> attrs, ident |-> ident, content |-> content])
    /\ mark' = Len(output)
    /\ output' = output \o mod_statements(attrs, ident)
    /\ body' = << >>
    /\ index' = 0
    /\ items' = << >>
    /\ method_items' = << >>
    /\ pc' = IF content THEN "items" ELSE "modules"

\* DeclItem::Method(method_item) => tokenise_method(None, method_item),
\* then `.filter(|t| !t.is_empty())`.
ItemMethod(method_item) ==
    /\ pc = "items"
    /\ nodes < MaxNodes
    /\ nodes' = nodes + 1
    /\ body' = Append(body, [item |-> "Method", method |-> method_item])
    /\ LET r == tokenise_method(module[1].ident, index, None, method_item)
       IN  IF r.tokens.kind = "panic"
               THEN /\ pc' = "panic"
                    /\ UNCHANGED << index, items >>
               ELSE /\ pc' = "items"
                    /\ index' = r.index
                    /\ items' = IF NonEmpty(r.tokens)
                                    THEN Append(items, r.tokens) ELSE items
    /\ UNCHANGED << output, module, method_items, mark >>

\* DeclItem::Type(type_item): `type T;` is quoted at once with no checks,
\* `type T { .. }` goes on over its methods.
ItemType(attrs, ident, content) ==
    /\ pc = "items"
    /\ nodes < MaxNodes
    /\ nodes' = nodes + 1
    /\ body' = Append(body, [item |-> "Type", attrs |-> attrs, ident |-> ident,
                             content |-> content, methods |-> << >>])
    /\ method_items' = << >>
    /\ IF content
           THEN /\ pc' = "type"
                /\ UNCHANGED items
           ELSE /\ pc' = "items"
                /\ items' = Append(items,
                                   type_block(attrs, module[1].ident, ident, << >>))
    /\ UNCHANGED << output, module, index, mark >>

\* `.map(|method_item| tokenise_method(Some(type_name), method_item))`
TypeMethod(method_item) ==
    /\ pc = "type"
    /\ nodes < MaxNodes
    /\ nodes' = nodes + 1
    /\ LET type_item == body[Len(body)]
           r == tokenise_method(module[1].ident, index, Some(type_item.ident),
                                method_item)
       IN  /\ body' = SetLast(body, [type_item EXCEPT
                                        !.methods = Append(@, method_item)])
           /\ IF r.tokens.kind = "panic"
                  THEN /\ pc' = "panic"
                       /\ UNCHANGED << index, method_items >>
                  ELSE /\ pc' = "type"
                       /\ index' = r.index
                       /\ method_items' = Append(method_items, r.tokens)
    /\ UNCHANGED << output, module, items, mark >>

\* The end of a type's body: its block is quoted.
EndType ==
    /\ pc = "type"
    /\ LET type_item == body[Len(body)]
       IN  items' = Append(items, type_block(type_item.attrs, module[1].ident,
                                             type_item.ident, method_items))
    /\ method_items' = << >>
    /\ pc' = "items"
    /\ UNCHANGED << output, module, body, index, mark, nodes >>

\* The end of a module's body: its load function is quoted.
EndModule ==
    /\ pc = "items"
    /\ output' = Append(output, load_function(module[1].ident, items))
    /\ pc' = "modules"
    /\ UNCHANGED << module, body, index, items, method_items, mark, nodes >>

\* `output.into()`
Return ==
    /\ pc = "modules"
    /\ pc' = "done"
    /\ UNCHANGED << output, module, body, index, items, method_items, mark, nodes >>

\* The type items the module pipeline is checked on.
TypeItems ==
    { [attrs |-> << "cfg(unix)" >>, ident |-> "A", content |-> FALSE] }
    \cup [attrs : {<< >>}, ident : TypeNames, content : {TRUE}]

Next ==
    \/ /\ pc = "modules"
       /\ \E attrs \in BoundedSeq(ModuleAttrs, MaxNodes - nodes - 1),
             ident \in ModuleNames, content \in BOOLEAN :
               Module(attrs, ident, content)
    \/ /\ pc = "items"
       /\ \E method_item \in GenMethods : ItemMethod(method_item)
    \/ /\ pc = "items"
       /\ \E t \in TypeItems : ItemType(t.attrs, t.ident, t.content)
    \/ /\ pc = "type"
       /\ \E method_item \in GenMethods : TypeMethod(method_item)
    \/ EndType
    \/ EndModule
    \/ Return

Spec == Init /\ [][Next]_vars

\* convert exercised on one method of a module without attributes: declared
\* directly in the module, or in one type.
NextConvert ==
    \/ module = None /\ Module(<< >>, "m", TRUE)
    \/ /\ pc = "items" /\ body = << >>
       /\ \E method_item \in ConvMethods : ItemMethod(method_item)
    \/ body = << >> /\ ItemType(<< >>, "A", TRUE)
    \/ /\ pc = "type" /\ body[Len(body)].methods = << >>
       /\ \E method_item \in ConvMethods : TypeMethod(method_item)
    \/ EndType
    \/ EndModule
    \/ Return

SpecConvert == Init /\ [][NextConvert]_vars

\* ------------------------------------------------------- attribute routing

\* What the current iteration has appended to `output`.
Emitted == SubSeq(output, mark + 1, Len(output))
IsModStatement(t) == t.kind = "mod"
IsLoadFunction(t) == t.kind = "load_fn"
ModStatements == SelectSeq(Emitted, IsModStatement)
LoadFunctions == SelectSeq(Emitted, IsLoadFunction)

\* The declared attributes of the current module, by position.
DeclaredAttrs == module[1].attrs
PathValued == { i \in 1..Len(DeclaredAttrs) : DeclaredAttrs[i].path /= None }
Plain == { i \in 1..Len(DeclaredAttrs) : DeclaredAttrs[i].path = None }

\* The position in attrs of the n-th attribute (n >= 1) whose position is in S.
Nth(S, n) == CHOOSE i \in S : Cardinality({ j \in S : j <= i }) = n

\* The plain attributes, in declaration order.
PlainAttrs == [n \in 1..Cardinality(Plain) |-> DeclaredAttrs[Nth(Plain, n)].attr]

\* C1: a module with no path-valued attribute gets exactly one statement that
\* carries all its attributes; a module with P >= 1 path-valued attributes gets
\* exactly P statements, in declaration order, the i-th carrying the i-th
\* path-valued attribute, a path directive with that attribute's own string,
\* every plain attribute, and nothing else.
C1_AttributeRouting ==
    module /= None =>
        IF PathValued = {}
            THEN /\ Len(ModStatements) = 1
                 /\ ModStatements[1].attr = None
                 /\ ModStatements[1].path = None
                 /\ ModStatements[1].custom_attrs = PlainAttrs
            ELSE /\ Len(ModStatements) = Cardinality(PathValued)
                 /\ \A n \in 1..Cardinality(PathValued) :
                        /\ n <= Len(ModStatements)
                        /\ ModStatements[n].attr =
                               Some(DeclaredAttrs[Nth(PathValued, n)].attr)
                        /\ ModStatements[n].path =
                               DeclaredAttrs[Nth(PathValued, n)].path
                        /\ ModStatements[n].custom_attrs = PlainAttrs

\* One plain and two path-valued attributes with different strings, routed
\* onto two statements.
C1_Witness ==
    /\ module /= None
    /\ Cardinality(PathValued) = 2
    /\ Cardinality(Plain) = 1
    /\ Len(ModStatements) = 2
    /\ ModStatements[1].path /= ModStatements[2].path
    /\ ModStatements[1].custom_attrs = << "allow(unused)" >>

\* `<module_name>/<suffix>/mod.rs` for a string `~<suffix>`, the string itself
\* otherwise.
ExpandedPath(module_name, str) ==
    IF \E x \in Suffixes : str = "~" \o x
        THEN LET x == CHOOSE y \in Suffixes : str = "~" \o y
             IN  module_name \o "/" \o x \o "/mod.rs"
        ELSE str

\* C2: the path directive of a path-valued attribute whose string begins with
\* `~` is `<module_name>/<suffix>/mod.rs`; any other string is emitted
\* unchanged.
C2_PathShorthand ==
    module /= None =>
        \A n \in 1..Cardinality(PathValued) :
            /\ n <= Len(ModStatements)
            /\ ModStatements[n].path =
                   Some(ExpandedPath(module[1].ident,
                                     DeclaredAttrs[Nth(PathValued, n)].path[1]))

\* The current iteration is over.
ModuleFinished == module /= None /\ pc \in {"modules", "done"}

\* C8: a module with an empty body, `;` or `{}`, gets no verification routine:
\* only its module statements are emitted.
C8_EmptyBody ==
    (ModuleFinished /\ (~module[1].content \/ body = << >>)) =>
        /\ LoadFunctions = << >>
        /\ Emitted = ModStatements

\* ------------------------------------------------------ generated checks

RECURSIVE Flatten(_)
Flatten(ss) == IF ss = << >> THEN << >> ELSE Head(ss) \o Flatten(Tail(ss))

\* The checks collected for the current module so far, in the order they
\* were generated: those of the finished items, then those of the type item
\* under way.
ChecksOf(item) == IF item.kind = "block" THEN item.method_items ELSE << item >>
AllChecks ==
    Flatten([i \in 1..Len(items) |-> ChecksOf(items[i])])
        \o SelectSeq(method_items, NonEmpty)

\* The methods declared in the body so far, each with its enclosing type.
MethodsOf(decl_item) ==
    IF decl_item.item = "Method"
        THEN << [type_name |-> None, method |-> decl_item.method] >>
        ELSE [j \in 1..Len(decl_item.methods) |->
                [type_name |-> Some(decl_item.ident),
                 method |-> decl_item.methods[j]]]
DeclaredMethods == Flatten([i \in 1..Len(body) |-> MethodsOf(body[i])])
HasNoBody(d) == ~d.method.default
\* The declared methods that carry no default body.
Checked == SelectSeq(DeclaredMethods, HasNoBody)

Min(a, b) == IF a <= b THEN a ELSE b

\* A parameter convert cannot turn into a typed argument: any receiver of a
\* method declared directly in a module, `mut self` anywhere, and a parameter
\* whose pattern is not one identifier.
AbortsConvert(d) ==
    \E i \in 1..Len(d.method.inputs) :
        LET arg == d.method.inputs[i]
        IN  \/ /\ IsReceiver(arg)
               /\ \/ d.type_name = None
                  \/ arg.arg = "SelfValue" /\ arg.mutability
            \/ /\ arg.arg = "Captured"
               /\ arg.pat \notin { << Id("x") >>, << Id("_") >> }

\* The declared type with every identifier `Self`, at any depth, replaced by
\* T and every other token kept: same length, same groups and delimiters.
RECURSIVE SelfSubst(_, _, _)
SelfSubst(declared, rewritten, T) ==
    /\ Len(rewritten) = Len(declared)
    /\ \A i \in 1..Len(declared) :
        IF declared[i].tt = "Group"
            THEN /\ rewritten[i].tt = "Group"
                 /\ rewritten[i].delimiter = declared[i].delimiter
                 /\ SelfSubst(declared[i].stream, rewritten[i].stream, T)
        ELSE IF declared[i] = Id("Self")
            THEN rewritten[i] = Id(T)
        ELSE rewritten[i] = declared[i]

\* The rewritten form of a declared type in its context.
Rewritten(type_name, declared, rewritten) ==
    IF type_name = None
        THEN rewritten = declared
        ELSE SelfSubst(declared, rewritten, type_name[1])

\* The type a receiver stands for inside type T.
ReceiverType(arg, T) ==
    IF arg.arg = "SelfRef"
        THEN << P("&") >> \o arg.lifetime
                 \o (IF arg.mutability THEN << Id("mut") >> ELSE << >>)
                 \o << Id(T) >>
        ELSE << Id(T) >>

\* C3: a method declared in the body of type T with a receiver gets a
\* function-pointer type whose first parameter is `&mut T` for `&mut self`,
\* `&T` for `&self` and `T` for `self` and `mut self`; the other parameters
\* follow in declared order; generation does not abort.
C3_ReceiverRewrite ==
    \A k \in 1..Len(Checked) :
        LET d == Checked[k]
            m == d.method
        IN  (d.type_name /= None /\ m.inputs /= << >> /\ IsReceiver(m.inputs[1])) =>
                /\ pc /= "panic"
                /\ k <= Len(AllChecks)
                /\ LET f == AllChecks[k].type_bare_fn
                   IN  /\ Len(f.inputs) = Len(m.inputs)
                       /\ f.inputs[1].ty = ReceiverType(m.inputs[1], d.type_name[1])
                       /\ \A i \in 2..Len(m.inputs) :
                              Rewritten(d.type_name, m.inputs[i].ty, f.inputs[i].ty)

\* C9: a method declared directly in a module with a receiver gets the
\* function-pointer type of its other parameters, in declared order, and of
\* its return type, and its check bound to `module::method_name` is emitted.
C9_ModuleLevelReceiver ==
    \A k \in 1..Len(Checked) :
        LET d == Checked[k]
            m == d.method
        IN  (d.type_name = None /\ m.inputs /= << >> /\ IsReceiver(m.inputs[1])) =>
                /\ pc /= "panic"
                /\ k <= Len(AllChecks)
                /\ AllChecks[k].context = module[1].ident
                /\ AllChecks[k].ident = m.ident
                /\ LET f == AllChecks[k].type_bare_fn
                   IN  /\ Len(f.inputs) = Len(m.inputs) - 1
                       /\ \A i \in 1..Len(f.inputs) : f.inputs[i].ty = m.inputs[i + 1].ty
                       /\ f.output = m.output

\* C4: in every generated check, each declared parameter type and the return
\* type is rewritten token for token, `Self` replaced by the enclosing type's
\* name at any depth and nothing else changed; for a method declared directly
\* in a module nothing is changed.
C4_SelfSubstitution ==
    \A k \in 1..Min(Len(Checked), Len(AllChecks)) :
        LET d == Checked[k]
            m == d.method
            f == AllChecks[k].type_bare_fn
        IN  /\ Len(f.inputs) = Len(m.inputs)
            /\ \A i \in 1..Len(m.inputs) :
                   ~IsReceiver(m.inputs[i]) =>
                       Rewritten(d.type_name, m.inputs[i].ty, f.inputs[i].ty)
            /\ Rewritten(d.type_name, m.output, f.output)

\* Vec<(A, [A; 2])>
TyNestedA == << Id("Vec"), P("<"),
                G("Parenthesis",
                  << Id("A"), P(","),
                     G("Bracket", << Id("A"), P(";"), Lit("2") >>) >>),
                P(">") >>

\* A method of type A taking Vec<(Self, [Self; 2])> and returning
\* fn(SelfT, &Self) -> &Self, rewritten.
C4_Witness ==
    /\ Len(Checked) = 1
    /\ Len(AllChecks) = 1
    /\ Checked[1].type_name = Some("A")
    /\ Checked[1].method.inputs = << SelfRef(None, TRUE), Captured(<< Id("x") >>, TyNested) >>
    /\ Checked[1].method.output = << P("-"), P(">") >> \o TyFn
    /\ AllChecks[1].type_bare_fn.inputs[2].ty = TyNestedA
    /\ AllChecks[1].type_bare_fn.output /= Checked[1].method.output

\* The generic parameters as a nested function carries them: bounds kept,
\* the default of a type parameter left off.
WithoutDefaults(params) ==
    [i \in 1..Len(params) |-> [param |-> params[i].param, default |-> None]]

\* The check of kind `const` for a method without generic parameters, the
\* nested function with the given parameter list and the method's
\* where-clause for one with them.
RoutedAs(check, m, params) ==
    IF m.generics.params = << >>
        THEN check.kind = "const"
        ELSE /\ check.kind = "fn"
             /\ check.impl_generics = params
             /\ check.where_clause = m.generics.where_clause

\* C5 as claimed, of the output of a finished expansion: every declared method
\* with a generic parameter gets exactly
\* one nested function that carries its generic parameter list and
\* where-clause unchanged, and no constant; every declared method without one
\* gets exactly one constant and no nested function.
C5_GenericRouting_AsClaimed ==
    pc = "done" =>
        /\ Len(AllChecks) = Len(DeclaredMethods)
        /\ \A k \in 1..Min(Len(AllChecks), Len(DeclaredMethods)) :
               RoutedAs(AllChecks[k], DeclaredMethods[k].method,
                        DeclaredMethods[k].method.generics.params)

\* C5 as amended: the routing holds of every declared method without a default
\* body, the generic parameter list carried without the defaults of its type
\* parameters; a method with a default body gets no check; a parameter that
\* convert cannot turn into an argument aborts generation, and nothing else
\* does.
C5_GenericRouting ==
    /\ \A k \in 1..Len(Checked) :
           AbortsConvert(Checked[k]) => (pc = "panic" /\ k = Len(Checked))
    /\ pc = "panic" =>
           /\ Checked /= << >>
           /\ AbortsConvert(Checked[Len(Checked)])
           /\ Len(AllChecks) = Len(Checked) - 1
    /\ pc /= "panic" => Len(AllChecks) = Len(Checked)
    /\ \A k \in 1..Min(Len(AllChecks), Len(Checked)) :
           /\ RoutedAs(AllChecks[k], Checked[k].method,
                       WithoutDefaults(Checked[k].method.generics.params))
           /\ AllChecks[k].ident = Checked[k].method.ident

\* A generic method with a where-clause, routed to a nested function, in a
\* body that has finished.
C5_Witness ==
    /\ pc = "done"
    /\ Len(Checked) = 1
    /\ Len(AllChecks) = 1
    /\ Checked[1].method.generics.where_clause = Some("T: Clone")
    /\ AllChecks[1].kind = "fn"
    /\ AllChecks[1].where_clause = Some("T: Clone")
    /\ Len(AllChecks[1].impl_generics) = 2

\* The identifiers of a module's checks, of methods in the module and in its
\* types, generic or not, are pairwise distinct: the k-th check generated
\* carries the number k - 1 of the one counter of the module, which stands at
\* the number of checks generated so far.
C6_Numbering ==
    /\ index = Len(AllChecks)
    /\ \A k \in 1..Len(AllChecks) :
           AllChecks[k].load_ident = "_ASSERT_METHOD_" \o ToString(k - 1)
    /\ \A j, k \in 1..Len(AllChecks) :
           j /= k => AllChecks[j].load_ident /= AllChecks[k].load_ident

\* C6: the `_ASSERT_METHOD_<k>` identifiers of a module's checks are pairwise
\* distinct and numbered by the one counter of the module, which never
\* decreases while the items of the module are processed, on entering or
\* leaving a type body included.
C6_AssertionIndex ==
    /\ []C6_Numbering
    /\ [][pc /= "modules" => index' >= index]_vars

\* A constant in the module, a nested function in a type, then a constant in
\* the module again.
C6_Witness ==
    /\ Len(body) = 3
    /\ body[1].item = "Method"
    /\ body[2].item = "Type"
    /\ body[3].item = "Method"
    /\ Len(AllChecks) = 3
    /\ AllChecks[1].kind = "const"
    /\ AllChecks[2].kind = "fn"
    /\ AllChecks[3].load_ident = "_ASSERT_METHOD_2"

\* The generated item that stands for a declared item: a check of the method,
\* or the block of the type with its import and one check per listed method.
ItemFor(generated, decl_item, methods) ==
    IF decl_item.item = "Method"
        THEN /\ generated.kind \in {"const", "fn"}
             /\ generated.ident = decl_item.method.ident
             /\ generated.context = module[1].ident
        ELSE /\ generated.kind = "block"
             /\ generated.use = << "self", module[1].ident, decl_item.ident >>
             /\ Len(generated.method_items) = Len(methods)
             /\ \A j \in 1..Min(Len(generated.method_items), Len(methods)) :
                    /\ generated.method_items[j].kind \in {"const", "fn"}
                    /\ generated.method_items[j].ident = methods[j].ident
                    /\ generated.method_items[j].context = decl_item.ident

TypeMethods(decl_item) ==
    IF decl_item.item = "Type" THEN decl_item.methods ELSE << >>

\* C7 as claimed: a module with a non-empty body gets exactly one verification
\* routine, holding one generated item per declared item, in order: a check per
\* module-level method, a block with the import and one check per method for a
\* type.
C7_CheckCount_AsClaimed ==
    (ModuleFinished /\ module[1].content /\ body /= << >>) =>
        /\ Len(LoadFunctions) = 1
        /\ Len(LoadFunctions[1].items) = Len(body)
        /\ \A i \in 1..Min(Len(LoadFunctions[1].items), Len(body)) :
               ItemFor(LoadFunctions[1].items[i], body[i], TypeMethods(body[i]))

WithoutBody(method_item) == ~method_item.default
Kept(decl_item) == decl_item.item = "Type" \/ ~decl_item.method.default

\* C7 as amended: the routine holds one generated item per declared type and
\* per declared module-level method without a default body, and a type's block
\* one check per method without a default body; when convert aborts on a
\* parameter no routine is emitted.
C7_CheckCount ==
    /\ (ModuleFinished /\ module[1].content /\ body /= << >>) =>
        /\ Len(LoadFunctions) = 1
        /\ Emitted = ModStatements \o LoadFunctions
        /\ LoadFunctions[1].function_name = "_load_" \o module[1].ident
        /\ LET kept == SelectSeq(body, Kept)
               its == LoadFunctions[1].items
           IN  /\ Len(its) = Len(kept)
               /\ \A i \in 1..Min(Len(its), Len(kept)) :
                      ItemFor(its[i], kept[i],
                              SelectSeq(TypeMethods(kept[i]), WithoutBody))
    /\ pc = "panic" =>
        /\ LoadFunctions = << >>
        /\ Checked /= << >>
        /\ AbortsConvert(Checked[Len(Checked)])

\* A finished module whose body holds a type with two methods, one of them
\* with a default body, and a module-level method.
C7_Witness ==
    /\ ModuleFinished
    /\ Len(body) = 2
    /\ body[1].item = "Type"
    /\ Len(body[1].methods) = 2
    /\ body[1].methods[1].default
    /\ body[2].item = "Method"
    /\ Len(LoadFunctions) = 1
    /\ Len(LoadFunctions[1].items) = 2
    /\ Len(LoadFunctions[1].items[1].method_items) = 1

\* Every name the checks of the current module introduce: the binding of each
\* check, and the name of each nested function.
NamesOf(check) ==
    IF check.kind = "fn"
        THEN << check.nested_function_name, check.load_ident >>
        ELSE << check.load_ident >>
EmittedNames == Flatten([k \in 1..Len(AllChecks) |-> NamesOf(AllChecks[k])])

\* C10 as claimed: no two names emitted for a module, those of the nested
\* functions included, are equal.
C10_UniqueNames_AsClaimed ==
    \A j, k \in 1..Len(EmittedNames) :
        j /= k => EmittedNames[j] /= EmittedNames[k]

\* C10 as amended: the bindings are named from the counter and are pairwise
\* distinct and distinct from every nested function's name; a nested function
\* is named `_load_<module>_<type>_<method>`, or `_load_<module>_<method>` for
\* a method of the module, whatever the counter.
C10_UniqueNames ==
    /\ \A j, k \in 1..Len(AllChecks) :
           /\ j /= k => AllChecks[j].load_ident /= AllChecks[k].load_ident
           /\ AllChecks[j].kind = "fn" =>
                  AllChecks[j].nested_function_name /= AllChecks[k].load_ident
    /\ \A k \in 1..Min(Len(AllChecks), Len(Checked)) :
           AllChecks[k].kind = "fn" =>
               AllChecks[k].nested_function_name =
                   IF Checked[k].type_name = None
                       THEN "_load_" \o module[1].ident \o "_"
                                \o Checked[k].method.ident
                       ELSE "_load_" \o module[1].ident \o "_"
                                \o Checked[k].type_name[1] \o "_"
                                \o Checked[k].method.ident

\* Two generic methods of different types whose nested functions get one
\* name, with different bindings.
C10_Witness ==
    /\ Len(AllChecks) = 2
    /\ Len(Checked) = 2
    /\ Checked[1].type_name = Some("A")
    /\ Checked[2].type_name = Some("A_B")
    /\ AllChecks[1].kind = "fn"
    /\ AllChecks[2].kind = "fn"
    /\ AllChecks[1].nested_function_name = AllChecks[2].nested_function_name
    /\ AllChecks[1].load_ident /= AllChecks[2].load_ident

====
